---------------------------- MODULE Spec2Model ----------------------------
(***************************************************************************)
(* Bitwise operators for enumerations (bitwise_enum.h) and the example     *)
(* program that uses them (example/main.cpp).                              *)
(*                                                                         *)
(* A value of an enumeration E is modelled by the mathematical integer     *)
(* that its underlying type U holds.  The built-in |, &, ^ and ~ of C++    *)
(* act on the two's complement representation; they are computed here by   *)
(* arithmetic on integers (halving and parity), the integral promotion of  *)
(* a U narrower than int and the conversion back by static_cast<E> are     *)
(* modelled as the conversions they are.                                   *)
(*                                                                         *)
(* Three specifications:                                                   *)
(*   Spec      the seven operators applied to values of an enabled E,      *)
(*   SpecTU    overload resolution of an operator expression in a          *)
(*             translation unit (the enable_if gate of each template),     *)
(*   SpecFlags the example's flag variable under set / clear / toggle.     *)
(***************************************************************************)
EXTENDS Integers, FiniteSets, Sequences, TLC

VARIABLES
    E,        \* Spec: the enumeration the operands belong to
    x, y, z,  \* Spec: three values of E (operands)
    a,        \* Spec: a variable of type E, left operand of |=, &=, ^=
    call,     \* Spec: the last operator call [op, lhs, rhs] (arguments as passed)
    ret,      \* Spec: what the last call yielded [type, value]
    specializations, \* the enumerations ENABLE_BITWISE_OPERATORS was expanded for
    expr,     \* SpecTU: the last operator expression [op, lhs, rhs] (operand types)
    result,   \* SpecTU: how that expression resolved [ok, via, type]
    align,    \* SpecFlags: the variable `align` of main
    prev,     \* SpecFlags: value of align before the last step
    step,     \* SpecFlags: the last step [kind, flag]
    applied,  \* SpecFlags: flags used in a |= step so far
    members,  \* SpecFlags: abstract set of flags
    onlyOr    \* SpecFlags: TRUE while every step so far was a |= step

vars == <<E, x, y, z, a, call, ret, specializations, expr, result,
          align, prev, step, applied, members, onlyOr>>

opVars == <<E, x, y, z, a, call, ret>>
tuVars == <<specializations, expr, result>>
flagVars == <<align, prev, step, applied, members, onlyOr>>

---------------------------------------------------------------------------
(* Bounds of the model. *)

\* Operand values include the single-bit flags 2^0 .. 2^(NumFlagBits-1).
NumFlagBits == 3

---------------------------------------------------------------------------
(* Underlying types. *)

\* The fixed underlying types the enumerations of the model use.
UTypes == {"signed char", "unsigned char", "unsigned short", "int"}

Bits(U) ==
    CASE U = "signed char" -> 8
      [] U = "unsigned char" -> 8
      [] U = "unsigned short" -> 16
      [] U = "int" -> 32

IsSigned(U) == U \in {"signed char", "int"}

RECURSIVE Pow2(_)
Pow2(n) == IF n = 0 THEN 1 ELSE 2 * Pow2(n - 1)

\* Largest and smallest value of U (written so that no intermediate value
\* exceeds the 32-bit range).
UMax(U) ==
    IF IsSigned(U) THEN (Pow2(Bits(U) - 2) - 1) + Pow2(Bits(U) - 2)
    ELSE Pow2(Bits(U)) - 1

UMin(U) == IF IsSigned(U) THEN (-UMax(U)) - 1 ELSE 0

InRange(U, v) == UMin(U) <= v /\ v <= UMax(U)

---------------------------------------------------------------------------
(* The built-in bitwise operators of an integer type, on two's complement. *)

\* Bit i of the two's complement representation of v.
RECURSIVE Bit(_, _)
Bit(v, i) == IF i = 0 THEN v % 2 ELSE Bit(v \div 2, i - 1)

RECURSIVE BitOr(_, _)
BitOr(m, n) ==
    IF m = 0 THEN n
    ELSE IF n = 0 THEN m
    ELSE IF m = -1 \/ n = -1 THEN -1
    ELSE 2 * BitOr(m \div 2, n \div 2) + (IF m % 2 = 1 \/ n % 2 = 1 THEN 1 ELSE 0)

RECURSIVE BitAnd(_, _)
BitAnd(m, n) ==
    IF m = 0 \/ n = 0 THEN 0
    ELSE IF m = -1 THEN n
    ELSE IF n = -1 THEN m
    ELSE 2 * BitAnd(m \div 2, n \div 2) + (IF m % 2 = 1 /\ n % 2 = 1 THEN 1 ELSE 0)

RECURSIVE BitXor(_, _)
BitXor(m, n) ==
    IF m = 0 THEN n
    ELSE IF n = 0 THEN m
    ELSE IF m = -1 THEN (-1) - n
    ELSE IF n = -1 THEN (-1) - m
    ELSE 2 * BitXor(m \div 2, n \div 2) + (IF m % 2 # n % 2 THEN 1 ELSE 0)

BitNot(m) == (-1) - m

\* An integer rvalue is [ty, val].  Integral promotion: a type narrower than
\* int becomes int, the value is kept.
Promote(i) ==
    IF Bits(i.ty) < Bits("int") THEN [ty |-> "int", val |-> i.val] ELSE i

\* lhs | rhs, lhs & rhs, lhs ^ rhs, ~lhs on operands of the same integer type:
\* the operands are promoted and the result has the promoted type.
builtin_or(i, j) ==
    [ty |-> Promote(i).ty, val |-> BitOr(Promote(i).val, Promote(j).val)]

builtin_and(i, j) ==
    [ty |-> Promote(i).ty, val |-> BitAnd(Promote(i).val, Promote(j).val)]

builtin_xor(i, j) ==
    [ty |-> Promote(i).ty, val |-> BitXor(Promote(i).val, Promote(j).val)]

builtin_not(i) ==
    [ty |-> Promote(i).ty, val |-> BitNot(Promote(i).val)]

\* Integral conversion of the value v to the type U: unchanged when U can
\* hold it, otherwise reduced modulo 2^Bits(U).
Convert(v, U) ==
    IF InRange(U, v) THEN v
    ELSE IF IsSigned(U)
         THEN ((v + Pow2(Bits(U) - 1)) % Pow2(Bits(U))) - Pow2(Bits(U) - 1)
         ELSE v % Pow2(Bits(U))

---------------------------------------------------------------------------
(* Enumerations.  An enumeration is [name, scoped, U]; a value of it is    *)
(* [enum, rep], rep being the value its underlying type holds.             *)

\* Widget::Alignment of the example: an enum class, underlying type int.
Alignment == [name |-> "Widget::Alignment", scoped |-> TRUE, U |-> "int"]

\* Further enumerations a user of the header may declare: scoped ones with
\* other underlying types, and unscoped ones with a fixed underlying type.
Enums ==
    { Alignment,
      [name |-> "Flags8", scoped |-> TRUE, U |-> "signed char"],
      [name |-> "Mask8", scoped |-> TRUE, U |-> "unsigned char"],
      [name |-> "Legacy16", scoped |-> FALSE, U |-> "unsigned short"],
      [name |-> "LegacyInt", scoped |-> FALSE, U |-> "int"] }

EnumNames == { En.name : En \in Enums }

\* std::underlying_type<E>::type
underlying_type_t(En) == En.U

\* static_cast<underlying_type_t>(e)
static_cast_U(En, e) == [ty |-> underlying_type_t(En), val |-> e.rep]

\* Variant of static_cast_E: the promoted result is returned as it is, not
\* converted to E's underlying type.
static_cast_E_unconverted(En, i) ==
    [enum |-> En.name, rep |-> i.val]

\* static_cast<E>(i): the integer is converted to E's underlying type.
static_cast_E(En, i) ==
    [enum |-> En.name, rep |-> Convert(i.val, underlying_type_t(En))]

---------------------------------------------------------------------------
(* The operator templates of bitwise_enum.h (their bodies). *)

\* static_cast<E>(0), the value with all-zero representation
zero(En) == static_cast_E(En, [ty |-> "int", val |-> 0])

\* Variant of operator_or: the body of operator^ pasted unchanged.
operator_or_pasted_xor(En, lhs, rhs) ==
    static_cast_E(En, builtin_xor(static_cast_U(En, lhs), static_cast_U(En, rhs)))

operator_or(En, lhs, rhs) ==
    static_cast_E(En, builtin_or(static_cast_U(En, lhs), static_cast_U(En, rhs)))

\* Variant of operator_and: lhs written for both operands.
operator_and_lhs_twice(En, lhs, rhs) ==
    static_cast_E(En, builtin_and(static_cast_U(En, lhs), static_cast_U(En, lhs)))

operator_and(En, lhs, rhs) ==
    static_cast_E(En, builtin_and(static_cast_U(En, lhs), static_cast_U(En, rhs)))

\* Variant of operator_xor: the body of operator| pasted unchanged.
operator_xor_pasted_or(En, lhs, rhs) ==
    static_cast_E(En, builtin_or(static_cast_U(En, lhs), static_cast_U(En, rhs)))

operator_xor(En, lhs, rhs) ==
    static_cast_E(En, builtin_xor(static_cast_U(En, lhs), static_cast_U(En, rhs)))

\* Variant of operator_not: logical ! written for ~ (the result is the
\* bool 0 or 1).
operator_not_logical(En, lhs) ==
    static_cast_E(En, [ty |-> "int", val |-> IF lhs.rep = 0 THEN 1 ELSE 0])

operator_not(En, lhs) ==
    static_cast_E(En, builtin_not(static_cast_U(En, lhs)))

\* Variants of the compound forms: lhs taken by value (E lhs for E& lhs),
\* so the caller's variable keeps its value.
operator_or_assign_by_value(En, lhs, rhs) ==
    [lhs |-> lhs, ret |-> "lhs"]

operator_xor_assign_by_value(En, lhs, rhs) ==
    [lhs |-> lhs, ret |-> "lhs"]

\* The compound forms take lhs by reference: [lhs, ret] is the value lhs
\* holds after the call and what the call returns ("lhs": a reference to
\* the left operand).
operator_or_assign(En, lhs, rhs) ==
    [lhs |-> static_cast_E(En,
                builtin_or(static_cast_U(En, lhs), static_cast_U(En, rhs))),
     ret |-> "lhs"]

operator_and_assign(En, lhs, rhs) ==
    [lhs |-> static_cast_E(En,
                builtin_and(static_cast_U(En, lhs), static_cast_U(En, rhs))),
     ret |-> "lhs"]

operator_xor_assign(En, lhs, rhs) ==
    [lhs |-> static_cast_E(En,
                builtin_xor(static_cast_U(En, lhs), static_cast_U(En, rhs))),
     ret |-> "lhs"]

---------------------------------------------------------------------------
(* The trait and overload resolution of an operator expression. *)

\* enable_bitwise_operators<T>::enable: true in the specialization the macro
\* writes, false in the general template.
enable_bitwise_operators(T) ==
    IF T \in specializations THEN TRUE ELSE FALSE

Ops == {"|", "&", "^", "~", "|=", "&=", "^="}
BinaryOps == {"|", "&", "^"}
CompoundOps == {"|=", "&=", "^="}

EnumOf(T) == CHOOSE En \in Enums : En.name = T

\* Variant of Deduce: E deduced from the left operand alone.
Deduce_from_lhs(op, T1, T2) == T1

\* Template argument deduction of E from the operands' types: one parameter
\* E for both operands, so both must be the same type.
Deduce(op, T1, T2) ==
    IF op = "~" THEN T1
    ELSE IF T1 = T2 THEN T1 ELSE "fail"

\* Variant of TemplateViable: the return type written without enable_if.
TemplateViable_ungated(op, T1, T2) ==
    Deduce(op, T1, T2) # "fail"

\* The template is a candidate when deduction succeeds and
\* std::enable_if<enable_bitwise_operators<E>::enable, ...>::type exists.
TemplateViable(op, T1, T2) ==
    /\ Deduce(op, T1, T2) # "fail"
    /\ enable_bitwise_operators(Deduce(op, T1, T2))

\* Return type of the template: E, or E& for the compound forms.
TemplateType(op, T1, T2) ==
    IF op \in CompoundOps THEN [type |-> Deduce(op, T1, T2), ref |-> TRUE]
    ELSE [type |-> Deduce(op, T1, T2), ref |-> FALSE]

\* The language's own operator on integers: a candidate for |, &, ^, ~ when
\* every operand converts implicitly to an integer, which an unscoped
\* enumeration does and a scoped one does not.  The compound forms need an
\* integer lvalue on the left, which no enumeration variable is.
BuiltinViable(op, T1, T2) ==
    /\ op \notin CompoundOps
    /\ ~EnumOf(T1).scoped
    /\ op = "~" \/ ~EnumOf(T2).scoped

\* Type of the built-in's result: the promoted type of the operands.
BuiltinType(op, T1, T2) ==
    [type |-> Promote([ty |-> EnumOf(T1).U, val |-> 0]).ty, ref |-> FALSE]

\* The expression T1 op T2 (op T1 when unary): the template, an exact match,
\* is chosen when viable; else the built-in operator when viable; else the
\* expression does not compile.
Resolve(op, T1, T2) ==
    IF TemplateViable(op, T1, T2)
    THEN [ok |-> TRUE, via |-> "template", type |-> TemplateType(op, T1, T2)]
    ELSE IF BuiltinViable(op, T1, T2)
    THEN [ok |-> TRUE, via |-> "builtin", type |-> BuiltinType(op, T1, T2)]
    ELSE [ok |-> FALSE, via |-> "none", type |-> "none"]

---------------------------------------------------------------------------
(* Spec: the operators applied to values of an enabled enumeration. *)

\* Representations the operands are drawn from: zero, the single-bit flags,
\* the extremes of U and, for a signed U, -1.
Reps(U) ==
    {0} \cup { Pow2(i) : i \in 0..(NumFlagBits - 1) }
        \cup {UMin(U), UMax(U)}
        \cup (IF IsSigned(U) THEN {-1} ELSE {})

Vals(En) == { [enum |-> En.name, rep |-> r] : r \in Reps(underlying_type_t(En)) }

NoCall == [op |-> "none", lhs |-> "none", rhs |-> "none"]
NoRet == [kind |-> "none", val |-> "none"]
NoExpr == [op |-> "none", lhs |-> "none", rhs |-> "none"]
NoResult == [ok |-> FALSE, via |-> "none", type |-> "none"]

OpsIdle ==
    /\ E = Alignment
    /\ x = zero(Alignment)
    /\ y = zero(Alignment)
    /\ z = zero(Alignment)
    /\ a = zero(Alignment)
    /\ call = NoCall
    /\ ret = NoRet

TUIdle ==
    /\ expr = NoExpr
    /\ result = NoResult

FlagsIdle ==
    /\ align = zero(Alignment)
    /\ prev = zero(Alignment)
    /\ step = [kind |-> "none", flag |-> "none"]
    /\ applied = {}
    /\ members = {}
    /\ onlyOr = TRUE

\* Every enumeration of the model has been given ENABLE_BITWISE_OPERATORS;
\* x, y, z are arbitrary operands and a is a variable initialised from x.
Init ==
    /\ specializations = EnumNames
    /\ E \in Enums
    /\ x \in Vals(E)
    /\ y \in Vals(E)
    /\ z \in Vals(E)
    /\ a = x
    /\ call = NoCall
    /\ ret = NoRet
    /\ TUIdle
    /\ FlagsIdle

\* ret = x | y
Or ==
    /\ Resolve("|", E.name, E.name).via = "template"
    /\ call' = [op |-> "|", lhs |-> x, rhs |-> y]
    /\ ret' = [kind |-> "value", val |-> operator_or(E, x, y)]
    /\ UNCHANGED <<E, x, y, z, a, tuVars, flagVars>>

\* ret = x & y
And ==
    /\ Resolve("&", E.name, E.name).via = "template"
    /\ call' = [op |-> "&", lhs |-> x, rhs |-> y]
    /\ ret' = [kind |-> "value", val |-> operator_and(E, x, y)]
    /\ UNCHANGED <<E, x, y, z, a, tuVars, flagVars>>

\* ret = x ^ y
Xor ==
    /\ Resolve("^", E.name, E.name).via = "template"
    /\ call' = [op |-> "^", lhs |-> x, rhs |-> y]
    /\ ret' = [kind |-> "value", val |-> operator_xor(E, x, y)]
    /\ UNCHANGED <<E, x, y, z, a, tuVars, flagVars>>

\* ret = ~x
Not ==
    /\ Resolve("~", E.name, "none").via = "template"
    /\ call' = [op |-> "~", lhs |-> x, rhs |-> "none"]
    /\ ret' = [kind |-> "value", val |-> operator_not(E, x)]
    /\ UNCHANGED <<E, x, y, z, a, tuVars, flagVars>>

\* The variable a after a compound call that left [lhs, ret]; the call
\* expression yields the returned reference, which is bound to a.
Assigned(r) ==
    /\ a' = r.lhs
    /\ ret' = [kind |-> "ref", val |-> IF r.ret = "lhs" THEN a' ELSE r.ret]

\* ret = (a |= y)
OrAssign ==
    /\ Resolve("|=", E.name, E.name).via = "template"
    /\ call' = [op |-> "|=", lhs |-> a, rhs |-> y]
    /\ Assigned(operator_or_assign(E, a, y))
    /\ UNCHANGED <<E, x, y, z, tuVars, flagVars>>

\* ret = (a &= y)
AndAssign ==
    /\ Resolve("&=", E.name, E.name).via = "template"
    /\ call' = [op |-> "&=", lhs |-> a, rhs |-> y]
    /\ Assigned(operator_and_assign(E, a, y))
    /\ UNCHANGED <<E, x, y, z, tuVars, flagVars>>

\* ret = (a ^= y)
XorAssign ==
    /\ Resolve("^=", E.name, E.name).via = "template"
    /\ call' = [op |-> "^=", lhs |-> a, rhs |-> y]
    /\ Assigned(operator_xor_assign(E, a, y))
    /\ UNCHANGED <<E, x, y, z, tuVars, flagVars>>

Next == Or \/ And \/ Xor \/ Not \/ OrAssign \/ AndAssign \/ XorAssign

Spec == Init /\ [][Next]_vars

---------------------------------------------------------------------------
(* SpecTU: a translation unit that declares the enumerations, expands the  *)
(* macro for some of them and then uses operator expressions on them.      *)

\* No specialization has been written: only the general template exists.
InitTU ==
    /\ specializations = {}
    /\ TUIdle
    /\ OpsIdle
    /\ FlagsIdle

\* ENABLE_BITWISE_OPERATORS(T).  A second expansion for the same T is a
\* redefinition and does not compile; a specialization must precede the
\* first use of the trait for T, so the expansions come before the
\* expressions.
EnableBitwiseOperators(T) ==
    /\ T \notin specializations
    /\ expr = NoExpr
    /\ specializations' = specializations \cup {T}
    /\ UNCHANGED <<expr, result, opVars, flagVars>>

\* An expression  l op r  with l of type T1 and r of type T2.
CompileBinary(op, T1, T2) ==
    /\ expr' = [op |-> op, lhs |-> T1, rhs |-> T2]
    /\ result' = Resolve(op, T1, T2)
    /\ UNCHANGED <<specializations, opVars, flagVars>>

\* An expression  ~l  with l of type T1.
CompileUnary(T1) ==
    /\ expr' = [op |-> "~", lhs |-> T1, rhs |-> "none"]
    /\ result' = Resolve("~", T1, "none")
    /\ UNCHANGED <<specializations, opVars, flagVars>>

NextTU ==
    \/ \E T \in EnumNames : EnableBitwiseOperators(T)
    \/ \E op \in BinaryOps \cup CompoundOps, T1, T2 \in EnumNames :
           CompileBinary(op, T1, T2)
    \/ \E T1 \in EnumNames : CompileUnary(T1)

SpecTU == InitTU /\ [][NextTU]_vars

---------------------------------------------------------------------------
(* SpecFlags: the variable align of the example under set, clear, toggle.  *)

\* The enumerators of Widget::Alignment.
none == 0
top == 1
bottom == 2
left == 4
right == 8

Enumerators == {none, top, bottom, left, right}

\* The enumerators that are flags: single bits.
Flags == {top, bottom, left, right}

\* Widget::Alignment::f
Enumerator(f) == [enum |-> Alignment.name, rep |-> f]

\* bool(e): the explicit conversion of the example, true iff non-zero.
to_bool(e) == e.rep # 0

\* bool(v & Widget::Alignment::g), the membership probe of the example
Probe(v, g) == to_bool(operator_and(Alignment, v, Enumerator(g)))

\* Widget::Alignment align = Widget::Alignment::none, in a translation unit
\* with ENABLE_BITWISE_OPERATORS(Widget::Alignment).
InitFlags ==
    /\ specializations = {Alignment.name}
    /\ align = Enumerator(none)
    /\ prev = Enumerator(none)
    /\ step = [kind |-> "none", flag |-> "none"]
    /\ applied = {}
    /\ members = {}
    /\ onlyOr = TRUE
    /\ OpsIdle
    /\ TUIdle

\* align |= Widget::Alignment::f
SetFlag(f) ==
    /\ Resolve("|=", Alignment.name, Alignment.name).via = "template"
    /\ align' = operator_or_assign(Alignment, align, Enumerator(f)).lhs
    /\ prev' = align
    /\ step' = [kind |-> "set", flag |-> f]
    /\ applied' = applied \cup {f}
    /\ members' = members \cup ({f} \cap Flags)
    /\ onlyOr' = onlyOr
    /\ UNCHANGED <<opVars, tuVars>>

\* align &= ~Widget::Alignment::f
ClearFlag(f) ==
    /\ Resolve("~", Alignment.name, "none").via = "template"
    /\ Resolve("&=", Alignment.name, Alignment.name).via = "template"
    /\ align' = operator_and_assign(Alignment, align,
                    operator_not(Alignment, Enumerator(f))).lhs
    /\ prev' = align
    /\ step' = [kind |-> "clear", flag |-> f]
    /\ applied' = applied
    /\ members' = members \ {f}
    /\ onlyOr' = FALSE
    /\ UNCHANGED <<opVars, tuVars>>

\* align ^= Widget::Alignment::f
ToggleFlag(f) ==
    /\ Resolve("^=", Alignment.name, Alignment.name).via = "template"
    /\ align' = operator_xor_assign(Alignment, align, Enumerator(f)).lhs
    /\ prev' = align
    /\ step' = [kind |-> "toggle", flag |-> f]
    /\ applied' = applied
    /\ members' = (members \ {f}) \cup (({f} \cap Flags) \ members)
    /\ onlyOr' = FALSE
    /\ UNCHANGED <<opVars, tuVars>>

NextFlags ==
    \/ \E f \in Enumerators : SetFlag(f)
    \/ \E f \in Enumerators : ClearFlag(f)
    \/ \E f \in Enumerators : ToggleFlag(f)

SpecFlags == InitFlags /\ [][NextFlags]_vars

---------------------------------------------------------------------------
(* Properties of the operators (checked under Spec). *)

\* The positions of the bits set in the representation of e, a value of En,
\* in the Bits(U) bits of En's underlying type U.
RepBits(En, e) ==
    { i \in 0..(Bits(underlying_type_t(En)) - 1) : Bit(e.rep, i) = 1 }

AllBits(En) == 0..(Bits(underlying_type_t(En)) - 1)

\* e is a value of the enumeration En: tagged En, representation in U's range.
IsValueOf(En, e) ==
    /\ DOMAIN e = {"enum", "rep"}
    /\ e.enum = En.name
    /\ InRange(underlying_type_t(En), e.rep)

\* C1: the result of x | y, x & y, x ^ y is a value of E whose representation
\* is, bit by bit over U, the OR, AND, XOR of the operands' representations.
C1_BitwiseResult ==
    call.op \in BinaryOps =>
        /\ ret.kind = "value"
        /\ IsValueOf(E, ret.val)
        /\ call.op = "|" =>
              RepBits(E, ret.val) = RepBits(E, call.lhs) \cup RepBits(E, call.rhs)
        /\ call.op = "&" =>
              RepBits(E, ret.val) = RepBits(E, call.lhs) \cap RepBits(E, call.rhs)
        /\ call.op = "^" =>
              RepBits(E, ret.val) =
                  (RepBits(E, call.lhs) \cup RepBits(E, call.rhs))
                      \ (RepBits(E, call.lhs) \cap RepBits(E, call.rhs))

\* 255 ^ 4 = 251 on an enumeration over unsigned char (operands promoted).
C1_Witness ==
    /\ call.op = "^"
    /\ underlying_type_t(E) = "unsigned char"
    /\ call.lhs.rep = 255
    /\ call.rhs.rep = 4
    /\ ret.val.rep = 251

\* The binary operator that corresponds to a compound form.
BinaryOf(op, En, l, r) ==
    CASE op = "|=" -> operator_or(En, l, r)
      [] op = "&=" -> operator_and(En, l, r)
      [] op = "^=" -> operator_xor(En, l, r)

\* C2: after a |= b (a &= b, a ^= b) the variable a holds the pre-assignment
\* a | b (a & b, a ^ b), and the expression yields a reference to a, so the
\* value it yields is the new value of a.
C2_CompoundAssign ==
    call.op \in CompoundOps =>
        /\ a = BinaryOf(call.op, E, call.lhs, call.rhs)
        /\ ret = [kind |-> "ref", val |-> a]

\* a = -1, a ^= 4 leaves a = -5 on an enumeration over a signed type.
C2_Witness ==
    /\ call.op = "^="
    /\ call.lhs.rep = -1
    /\ call.rhs.rep = 4
    /\ a.rep = -5
    /\ ret.val.rep = -5

\* C5: over an N-bit U, ~zero(E) has all N bits set (-1 when U is signed,
\* 2^N - 1 when unsigned); ~ flips every one of the N bits, not only those of
\* declared flags; and every operator's result, and the variable a compound
\* form updates, fits in U.
C5_WidthFidelity ==
    /\ (call.op = "~" /\ call.lhs = zero(E)) =>
          /\ RepBits(E, ret.val) = AllBits(E)
          /\ ret.val.rep = IF IsSigned(underlying_type_t(E))
                           THEN -1
                           ELSE Pow2(Bits(underlying_type_t(E))) - 1
    /\ call.op = "~" =>
          RepBits(E, ret.val) = AllBits(E) \ RepBits(E, call.lhs)
    /\ call.op # "none" =>
          /\ IsValueOf(E, ret.val)
          /\ IsValueOf(E, a)

\* ~zero(E) = 255 on an enumeration over unsigned char.
C5_Witness ==
    /\ call.op = "~"
    /\ underlying_type_t(E) = "unsigned char"
    /\ call.lhs.rep = 0
    /\ ret.val.rep = 255

\* C6: |, & and ^ are commutative and associative.  For the call just made
\* on (lhs, rhs): the operands swapped give the same result, and combining
\* the result with z equals combining lhs with (rhs op z).
C6_CommutativeAssociative ==
    /\ call.op = "|" =>
          /\ ret.val = operator_or(E, call.rhs, call.lhs)
          /\ operator_or(E, ret.val, z)
                = operator_or(E, call.lhs, operator_or(E, call.rhs, z))
    /\ call.op = "&" =>
          /\ ret.val = operator_and(E, call.rhs, call.lhs)
          /\ operator_and(E, ret.val, z)
                = operator_and(E, call.lhs, operator_and(E, call.rhs, z))
    /\ call.op = "^" =>
          /\ ret.val = operator_xor(E, call.rhs, call.lhs)
          /\ operator_xor(E, ret.val, z)
                = operator_xor(E, call.lhs, operator_xor(E, call.rhs, z))

\* An & of three pairwise different non-zero operands on a signed U.
C6_Witness ==
    /\ call.op = "&"
    /\ call.lhs.rep = UMin(underlying_type_t(E))
    /\ call.rhs.rep = -1
    /\ z.rep = 4
    /\ ret.val.rep = UMin(underlying_type_t(E))

\* C7: x | x = x, x & x = x, x ^ x = zero(E), ~~x = x.
C7_Idempotence ==
    /\ (call.op = "|" /\ call.lhs = call.rhs) => ret.val = call.lhs
    /\ (call.op = "&" /\ call.lhs = call.rhs) => ret.val = call.lhs
    /\ (call.op = "^" /\ call.lhs = call.rhs) => ret.val = zero(E)
    /\ call.op = "~" => operator_not(E, ret.val) = call.lhs

\* x ^ x with x the most negative value of int.
C7_Witness ==
    /\ call.op = "^"
    /\ E = Alignment
    /\ call.lhs.rep = UMin("int")
    /\ call.rhs = call.lhs
    /\ ret.val.rep = 0

\* C8: De Morgan, ~(x | y) = (~x) & (~y) and ~(x & y) = (~x) | (~y).
C8_DeMorgan ==
    /\ call.op = "|" =>
          operator_not(E, ret.val)
            = operator_and(E, operator_not(E, call.lhs), operator_not(E, call.rhs))
    /\ call.op = "&" =>
          operator_not(E, ret.val)
            = operator_or(E, operator_not(E, call.lhs), operator_not(E, call.rhs))

\* 1 & 2 = 0 on an enumeration over unsigned short: ~0 = 65535 = ~1 | ~2.
C8_Witness ==
    /\ call.op = "&"
    /\ underlying_type_t(E) = "unsigned short"
    /\ call.lhs.rep = 1
    /\ call.rhs.rep = 2
    /\ operator_not(E, ret.val).rep = 65535

---------------------------------------------------------------------------
(* Properties of overload resolution (checked under SpecTU). *)

\* The last expression has operands of one enumeration only.
OnOneEnum == expr.op # "none" /\ (expr.op = "~" \/ expr.rhs = expr.lhs)

\* The last expression is binary or compound with operands of two distinct
\* enumerations, both given ENABLE_BITWISE_OPERATORS.
OnTwoEnabledEnums ==
    /\ expr.op \in BinaryOps \cup CompoundOps
    /\ expr.lhs # expr.rhs
    /\ expr.lhs \in specializations
    /\ expr.rhs \in specializations

\* The trait is false wherever the macro was not expanded, and the header's
\* operator is the one used for an expression on E exactly when it was.
GatedByTrait ==
    /\ \A T \in EnumNames \ specializations : ~enable_bitwise_operators(T)
    /\ OnOneEnum => (result.via = "template" <=> expr.lhs \in specializations)
    /\ (OnOneEnum /\ result.via = "template") =>
          result.type = [type |-> expr.lhs, ref |-> expr.op \in CompoundOps]

\* C3 as stated: the trait is false by default, the seven operators are
\* available for E iff E was declared enabled, and for ANY enumeration F
\* with no declaration every expression using them on F does not compile.
C3_AsStated ==
    /\ GatedByTrait
    /\ (OnOneEnum /\ expr.lhs \notin specializations) => ~result.ok

\* C3 amended: as stated for every scoped enumeration F.  For an unscoped F
\* with no declaration the header's operators are not used either, but
\* |, &, ^, ~ compile as the built-in integer operators (the result is a
\* promoted integer, not an F) and only |=, &=, ^= do not compile.
C3_OptInGating ==
    /\ GatedByTrait
    /\ (OnOneEnum /\ expr.lhs \notin specializations /\ EnumOf(expr.lhs).scoped)
          => ~result.ok
    /\ (OnOneEnum /\ expr.lhs \notin specializations /\ ~EnumOf(expr.lhs).scoped)
          => /\ result.ok <=> expr.op \notin CompoundOps
             /\ result.ok =>
                   /\ result.via = "builtin"
                   /\ result.type.type \notin EnumNames

\* top & bottom on Widget::Alignment without the macro, in a translation
\* unit that enabled another enumeration, does not compile.
C3_Witness ==
    /\ expr = [op |-> "&", lhs |-> Alignment.name, rhs |-> Alignment.name]
    /\ Alignment.name \notin specializations
    /\ "Flags8" \in specializations
    /\ ~result.ok

\* C4 as stated: a binary operator on operands of two distinct enabled
\* enumerations is an error, whatever the enumerations.
C4_AsStated ==
    OnTwoEnabledEnums => ~result.ok

\* C4 amended: an error whenever at least one of the two enumerations is
\* scoped (and for |=, &=, ^= always); the header's operator is never the
\* one used on mixed operands and no value of either enumeration results.
\* Two unscoped operands of |, &, ^ compile as the built-in integer
\* operator and yield a promoted integer.
C4_CrossEnum ==
    OnTwoEnabledEnums =>
        /\ result.via # "template"
        /\ result.ok => result.type.type \notin EnumNames
        /\ (EnumOf(expr.lhs).scoped \/ EnumOf(expr.rhs).scoped
              \/ expr.op \in CompoundOps) => ~result.ok
        /\ (~EnumOf(expr.lhs).scoped /\ ~EnumOf(expr.rhs).scoped
              /\ expr.op \in BinaryOps) => result.via = "builtin"

\* e1 | e2 with e1 a Widget::Alignment and e2 a Flags8, both enabled.
C4_Witness ==
    /\ expr = [op |-> "|", lhs |-> Alignment.name, rhs |-> "Flags8"]
    /\ {Alignment.name, "Flags8"} \subseteq specializations
    /\ ~result.ok

---------------------------------------------------------------------------
(* Properties of the flag variable (checked under SpecFlags). *)

RECURSIVE SumOf(_)
SumOf(S) ==
    IF S = {} THEN 0
    ELSE LET f == CHOOSE g \in S : TRUE IN f + SumOf(S \ {f})

\* C9: while only |= steps were made from none, the probe of each flag g is
\* non-zero iff g was applied; align is determined by the set of flags
\* applied (order and repetition do not matter); all four flags give 15,
\* and so does the expression top | bottom | left | right.
C9_Accumulate ==
    /\ onlyOr =>
          /\ \A g \in Flags : Probe(align, g) <=> g \in applied
          /\ align = Enumerator(SumOf(applied))
          /\ Flags \subseteq applied => align.rep = 15
    /\ operator_or(Alignment,
           operator_or(Alignment,
               operator_or(Alignment, Enumerator(top), Enumerator(bottom)),
               Enumerator(left)),
           Enumerator(right)).rep = 15

\* After align |= top; align |= left: top and left probe non-zero, bottom
\* and right zero.
C9_Witness ==
    /\ onlyOr
    /\ applied = {top, left}
    /\ step = [kind |-> "set", flag |-> left]
    /\ Probe(align, top)
    /\ Probe(align, left)
    /\ ~Probe(align, bottom)
    /\ ~Probe(align, right)

\* C10: under set, clear and toggle steps align always represents the
\* abstract set: each flag probes non-zero iff it is in members; no bit
\* outside the four flags is set; a step changes the membership of no flag
\* other than its own.
C10_SetRefinement ==
    /\ \A g \in Flags : Probe(align, g) <=> g \in members
    /\ RepBits(Alignment, align) \subseteq RepBits(Alignment, Enumerator(15))
    /\ step.kind # "none" =>
          \A g \in Flags \ {step.flag} : Probe(align, g) <=> Probe(prev, g)

\* align &= ~top on {top, left} leaves {left}.
C10_Witness ==
    /\ step = [kind |-> "clear", flag |-> top]
    /\ prev.rep = 5
    /\ align.rep = 4
    /\ members = {left}

===========================================================================
